---- MODULE Spec2Model ----
(***************************************************************************)
(* Model of internal/watcher (package watcher): the fsnotify-based         *)
(* directory watcher with its debounce buffer.                             *)
(*                                                                         *)
(* Goroutines:                                                             *)
(*   - the watch goroutine (Watcher.watch), which runs bufferEvent for     *)
(*     every raw event, one statement group at a time;                     *)
(*   - one goroutine per fired time.AfterFunc timer, each running          *)
(*     processBufferedEvents;                                              *)
(*   - the callers of Start and of Stop, each in a goroutine of its own    *)
(*     (as in cmd/debug/main.go);                                          *)
(*   - the environment: the clock and the file system under the root.      *)
(* The code takes no lock, so the steps of these goroutines interleave     *)
(* freely.  A pc value "Lnnn" is the source line the goroutine executes    *)
(* next.                                                                   *)
(***************************************************************************)
EXTENDS Integers, Sequences, FiniteSets, TLC

VARIABLES
    now,            \* the wall clock (ms), read by time.Now()
    ticks,          \* number of clock advances so far
    nEvents,        \* number of raw markdown-file events delivered so far
    dirs,           \* directories that exist in the file system
    fsWatcher,      \* w.fsWatcher: "nil" before Start, then "open", and
                    \* "closed" after Close
    watches,        \* paths registered through fsWatcher.Add
    pcW,            \* watch goroutine: position in watch/bufferEvent
    ev,             \* watch goroutine: the event in hand
    nowW,           \* watch goroutine: local `now` of bufferEvent
    feW,            \* watch goroutine: local `fe` of bufferEvent
    eventBuffer,    \* w.eventBuffer: path -> *fileEvent (Nil = no key)
    heap,           \* the fileEvent objects the pointers refer to
    debounceTimer,  \* w.debounceTimer: state and deadline of the last timer
    sweep,          \* the processBufferedEvents goroutines
    win,            \* per path: the flags bufferEvent has set since a sweep
                    \* last began
    crashed,        \* the Go runtime stopped the process (fatal error)
    timers,         \* the deadlines of the time.AfterFunc timers still armed
    pcS,            \* the goroutine that calls Start: position in Start
    done,           \* w.done: "open" or "closed"
    pcStop,         \* the caller of Stop: position in Stop
    nStops,         \* number of Stop calls so far
    nErrors,        \* number of items received from fsWatcher.Errors
    panicked        \* a goroutine panicked (close of a closed channel)

\* the state of Start, Stop and the error stream
life == <<pcS, done, pcStop, nStops, nErrors, panicked>>

vars == <<now, ticks, nEvents, dirs, fsWatcher, watches, pcW, ev, nowW, feW,
          eventBuffer, heap, debounceTimer, sweep, win, crashed, timers, life>>

----------------------------------------------------------------------------
(* Bounds of the model. *)

MaxEvents == 2
MaxTicks == 2
MaxStops == 2
MaxClock == 5200
MaxErrors == 1

(* Program constants. *)

DebounceMs == 100
StaleMs == 5000

----------------------------------------------------------------------------
(* Paths.  A path is the sequence of its elements; an element's characters *)
(* are given by Chars, so that the string functions are computed.          *)

Root == <<"r">>
Old == <<"r", "old">>
Hid == <<"r", ".hid">>
Sub == <<"r", "sub">>
New == <<"r", ".new">>
FileS == <<"r", "sub", "s.md">>
FileN == <<"r", ".new", "n.md">>
FileX == <<"r", "x.txt">>
FileH == <<"r", ".hid", "h.md">>
FileO == <<"r", "old", "o.md">>
FileU == <<"r", "U.MD">>
FileD == <<"r", ".d.md">>
FileT == <<"r", "~t.md">>

\* the directories created while the watcher runs, and the markdown files
\* created in them
NewDirs == {Sub, New}
MdFiles == {FileS, FileN}

\* the paths that get past the filter of bufferEvent in some execution
BufferPaths == MdFiles \cup {Sub, FileO}

\* paths that the filter of bufferEvent drops
OtherFiles == {FileX, FileU, FileD, FileT}

Chars(name) ==
    CASE name = "r" -> <<"r">>
      [] name = "old" -> <<"o", "l", "d">>
      [] name = ".hid" -> <<".", "h", "i", "d">>
      [] name = "sub" -> <<"s", "u", "b">>
      [] name = ".new" -> <<".", "n", "e", "w">>
      [] name = "s.md" -> <<"s", ".", "m", "d">>
      [] name = "n.md" -> <<"n", ".", "m", "d">>
      [] name = "x.txt" -> <<"x", ".", "t", "x", "t">>
      [] name = "h.md" -> <<"h", ".", "m", "d">>
      [] name = "o.md" -> <<"o", ".", "m", "d">>
      [] name = "U.MD" -> <<"U", ".", "M", "D">>
      [] name = ".d.md" -> <<".", "d", ".", "m", "d">>
      [] name = "~t.md" -> <<"~", "t", ".", "m", "d">>

Base(p) == p[Len(p)]
Dir(p) == SubSeq(p, 1, Len(p) - 1)

MaxOf(S) == CHOOSE x \in S : \A y \in S : y <= x

\* filepath.Ext: the suffix starting at the last dot of the last element
Ext(p) ==
    LET cs == Chars(Base(p))
        dots == {i \in 1..Len(cs) : cs[i] = "."}
    IN  IF dots = {} THEN <<>> ELSE SubSeq(cs, MaxOf(dots), Len(cs))

\* strings.HasPrefix(filepath.Base(p), c) for a one-character prefix c
HasPrefix(p, c) ==
    LET cs == Chars(Base(p)) IN Len(cs) >= 1 /\ cs[1] = c

isMarkdownFile(p) ==
    /\ Ext(p) = <<".", "m", "d">>
    /\ ~HasPrefix(p, ".")
    /\ ~HasPrefix(p, "~")

\* os.Stat(p) succeeds and reports a directory
isDirectory(p) == p \in dirs

\* the regular files that exist when the watcher starts
StartFiles == {p \in {FileX, FileH} : Dir(p) \in dirs}

----------------------------------------------------------------------------
(* Raw events: fsnotify.Event{Name, Op}; Op is a set of operation bits.    *)

Ops == {"Create", "Write", "Remove", "Rename", "Chmod"}
OpMasks == {{"Create"}, {"Write"}, {"Remove"}, {"Rename"},
            {"Create", "Write"}, {"Chmod"}}
NoEvent == [name |-> <<>>, op |-> {}]

\* the flags of fileEvent that lines 130-148 set for an operation mask
FlagsOf(op) ==
    (IF "Create" \in op THEN {"isNew"} ELSE {})
        \cup (IF "Write" \in op THEN {"isModified"} ELSE {})
        \cup (IF "Remove" \in op \/ "Rename" \in op THEN {"isDeleted"} ELSE {})

----------------------------------------------------------------------------
(* The heap of fileEvent objects.  eventBuffer, feW and sweep[s].fe hold   *)
(* pointers (identifiers); an object nothing points to is garbage and is   *)
(* reset, and a new object takes the least free identifier.                *)

Sweepers == {1, 2}
Idle == "idle"

Nil == 0
Ids == 1..(Cardinality(BufferPaths) + Cardinality(Sweepers) + 1)

\* &fileEvent{path: event.Name, lastSeen: t}; disp counts the logical
\* events dispatched from the object
NewFileEvent(t) ==
    [lastSeen |-> t, isNew |-> FALSE, isModified |-> FALSE,
     isDeleted |-> FALSE, disp |-> 0]

Blank == NewFileEvent(0)

Live(eb, f, sw) ==
    {eb[p] : p \in DOMAIN eb} \cup {f} \cup {sw[s].fe : s \in Sweepers}

Collect(h, eb, f, sw) ==
    [i \in Ids |-> IF i \in Live(eb, f, sw) THEN h[i] ELSE Blank]

FreshId == CHOOSE i \in Ids :
    /\ i \notin Live(eventBuffer, feW, sweep)
    /\ \A j \in Ids : j < i => j \in Live(eventBuffer, feW, sweep)

EmptyWin == [p \in BufferPaths |-> {}]

IdleSweep ==
    [pc |-> Idle, now |-> 0, must |-> {}, may |-> {}, path |-> <<>>,
     fe |-> Nil, n |-> FALSE, out |-> <<>>, batch |-> EmptyWin, clean |-> FALSE]

----------------------------------------------------------------------------
(* New(path): the state after construction; the file system holds one of   *)
(* the sets of directories in Worlds.                                      *)

Boot(Worlds) ==
    /\ now = 0
    /\ ticks = 0
    /\ nEvents = 0
    /\ dirs \in Worlds
    /\ fsWatcher = "nil"
    /\ watches = {}
    /\ pcW = Idle
    /\ ev = NoEvent
    /\ nowW = 0
    /\ feW = Nil
    /\ eventBuffer = [p \in BufferPaths |-> Nil]
    /\ heap = [i \in Ids |-> Blank]
    /\ debounceTimer = [state |-> "nil", deadline |-> 0]
    /\ sweep = [s \in Sweepers |-> IdleSweep]
    /\ win = EmptyWin
    /\ crashed = FALSE
    /\ timers = {}
    /\ pcS = Idle
    /\ done = "open"
    /\ pcStop = Idle
    /\ nStops = 0
    /\ nErrors = 0
    /\ panicked = FALSE

----------------------------------------------------------------------------
(* Watcher.addRecursive: filepath.WalkDir from root; a hidden directory    *)
(* other than the root is skipped with its subtree, every other visited    *)
(* path, directory or regular file, is passed to fsWatcher.Add.  When the  *)
(* root cannot be read the callback logs the error and returns nil, and    *)
(* nothing is added.                                                       *)

\* the entries of directory path
ReadDir(path) == {q \in dirs \cup StartFiles : Dir(q) = path}

RECURSIVE Walk(_, _)
Walk(root, path) ==
    IF isDirectory(path) /\ HasPrefix(path, ".") /\ path # root
    THEN {}
    ELSE {path} \cup UNION {Walk(root, c) : c \in ReadDir(path)}

addRecursive(root) ==
    IF root \in dirs \cup StartFiles THEN Walk(root, root) ELSE {}

\* the error addRecursive returns: the callback of lines 269-291 returns
\* nil or SkipDir only, so WalkDir returns nil
addRecursiveErr(root) == FALSE

(* Watcher.Start, lines 50-70, with nothing running beside it:             *)
(* fsnotify.NewWatcher succeeds, addRecursive, `go w.watch()`; the watch    *)
(* goroutine waits in its select and Start blocks on w.done.                *)
Start ==
    /\ ~crashed
    /\ pcS = Idle
    /\ fsWatcher = "nil"
    /\ pcW = Idle
    /\ fsWatcher' = "open"
    /\ watches' = addRecursive(Root)
    /\ pcW' = "select"
    /\ pcS' = "L70"
    /\ UNCHANGED <<now, ticks, nEvents, dirs, ev, nowW, feW, eventBuffer,
                   heap, debounceTimer, sweep, win, crashed, timers, done,
                   pcStop, nStops, nErrors, panicked>>

\* the process stops; panic tells a panic from a fatal error
Halt(panic) ==
    /\ crashed' = TRUE
    /\ panicked' = panic
    /\ timers' = {}
    /\ pcS' = Idle
    /\ done' = "open"
    /\ pcStop' = Idle
    /\ nStops' = 0
    /\ nErrors' = 0
    /\ now' = 0
    /\ ticks' = 0
    /\ nEvents' = 0
    /\ dirs' = {}
    /\ fsWatcher' = "nil"
    /\ watches' = {}
    /\ pcW' = Idle
    /\ ev' = NoEvent
    /\ nowW' = 0
    /\ feW' = Nil
    /\ eventBuffer' = [p \in BufferPaths |-> Nil]
    /\ heap' = [i \in Ids |-> Blank]
    /\ debounceTimer' = [state |-> "nil", deadline |-> 0]
    /\ sweep' = [s \in Sweepers |-> IdleSweep]
    /\ win' = EmptyWin

\* the variables of the coalescer, and of the environment
coalescer == <<ev, nowW, feW, eventBuffer, heap, debounceTimer, sweep, win,
               timers>>
world == <<now, ticks, nEvents, dirs>>

(* Watcher.Start, statement by statement, with Stop running beside it.     *)

\* Start is called (cmd/debug/main.go calls it in a goroutine of its own)
StartCall ==
    /\ ~crashed
    /\ pcS = Idle
    /\ pcS' = "L50"
    /\ UNCHANGED <<world, coalescer, fsWatcher, watches, pcW, crashed, done,
                   pcStop, nStops, nErrors, panicked>>

\* line 50: w.fsWatcher, err = fsnotify.NewWatcher() succeeds
StartNewWatcher ==
    /\ ~crashed
    /\ pcS = "L50"
    /\ fsWatcher' = "open"
    /\ pcS' = "L58"
    /\ UNCHANGED <<world, coalescer, watches, pcW, crashed, done, pcStop,
                   nStops, nErrors, panicked>>

\* lines 50-55: fsnotify.NewWatcher() fails; Start returns the error
StartNewWatcherFails ==
    /\ ~crashed
    /\ pcS = "L50"
    /\ fsWatcher' = "nil"
    /\ pcS' = "returned error"
    /\ UNCHANGED <<world, coalescer, watches, pcW, crashed, done, pcStop,
                   nStops, nErrors, panicked>>

\* lines 58-63: err = w.addRecursive(w.path); Add fails on a closed source
StartAddRecursive ==
    /\ ~crashed
    /\ pcS = "L58"
    /\ watches' = IF fsWatcher = "open" THEN addRecursive(Root) ELSE watches
    /\ pcS' = IF addRecursiveErr(Root) THEN "returned error" ELSE "L65"
    /\ UNCHANGED <<world, coalescer, fsWatcher, pcW, crashed, done, pcStop,
                   nStops, nErrors, panicked>>

\* lines 65-70: go w.watch(); Start waits on w.done
StartGoWatch ==
    /\ ~crashed
    /\ pcS = "L65"
    /\ pcW' = "select"
    /\ pcS' = "L70"
    /\ UNCHANGED <<world, coalescer, fsWatcher, watches, crashed, done,
                   pcStop, nStops, nErrors, panicked>>

\* lines 70-72: <-w.done is released by the closed channel; return nil
StartReturn ==
    /\ ~crashed
    /\ pcS = "L70"
    /\ done = "closed"
    /\ pcS' = "returned nil"
    /\ UNCHANGED <<world, coalescer, fsWatcher, watches, pcW, crashed, done,
                   pcStop, nStops, nErrors, panicked>>

(* Watcher.Stop, statement by statement. *)

\* Stop is called (cmd/debug/main.go calls it from the main goroutine)
StopCall ==
    /\ ~crashed
    /\ pcStop = Idle
    /\ nStops < MaxStops
    /\ nStops' = nStops + 1
    /\ pcStop' = "L207"
    /\ UNCHANGED <<world, coalescer, fsWatcher, watches, pcW, crashed, pcS,
                   done, nErrors, panicked>>

\* Stop without the test of line 207
StopUnchecked ==
    /\ ~crashed
    /\ pcStop = "L207"
    /\ pcStop' = "L208"
    /\ UNCHANGED <<world, coalescer, fsWatcher, watches, pcW, crashed, pcS,
                   done, nStops, nErrors, panicked>>

\* line 207: if w.fsWatcher != nil, else line 212: return nil
StopCheck ==
    /\ ~crashed
    /\ pcStop = "L207"
    /\ pcStop' = IF fsWatcher # "nil" THEN "L208" ELSE Idle
    /\ UNCHANGED <<world, coalescer, fsWatcher, watches, pcW, crashed, pcS,
                   done, nStops, nErrors, panicked>>

\* line 208: close(w.done); closing a closed channel panics
StopCloseDone ==
    /\ ~crashed
    /\ pcStop = "L208"
    /\ IF done = "closed"
       THEN Halt(TRUE)
       ELSE /\ done' = "closed"
            /\ pcStop' = "L209"
            /\ UNCHANGED <<world, coalescer, fsWatcher, watches, pcW,
                           crashed, pcS, nStops, nErrors, panicked>>

\* line 209: return w.fsWatcher.Close(): the watches are removed and the
\* Events and Errors channels are closed
StopClose ==
    /\ ~crashed
    /\ pcStop = "L209"
    /\ fsWatcher' = "closed"
    /\ watches' = {}
    /\ pcStop' = Idle
    /\ UNCHANGED <<world, coalescer, pcW, crashed, pcS, done, nStops,
                   nErrors, panicked>>

(* Watcher.watch: the select of lines 87-100 beside the Events case.       *)

\* the Errors case with `return` in place of the log of line 98
WatchErrorReturns ==
    /\ ~crashed
    /\ pcW = "select"
    /\ fsWatcher = "open"
    /\ nErrors < MaxErrors
    /\ nErrors' = nErrors + 1
    /\ pcW' = "exit"
    /\ UNCHANGED <<world, coalescer, fsWatcher, watches, crashed, pcS,
                   done, pcStop, nStops, panicked>>

\* lines 94-99: an item of the Errors channel is logged; the loop goes on
WatchError ==
    /\ ~crashed
    /\ pcW = "select"
    /\ fsWatcher = "open"
    /\ nErrors < MaxErrors
    /\ nErrors' = nErrors + 1
    /\ UNCHANGED <<world, coalescer, fsWatcher, watches, pcW, crashed, pcS,
                   done, pcStop, nStops, panicked>>

\* lines 89-92, 94-97: a receive from a closed channel gives !ok; return
WatchExit ==
    /\ ~crashed
    /\ pcW = "select"
    /\ fsWatcher = "closed"
    /\ pcW' = "exit"
    /\ UNCHANGED <<world, coalescer, fsWatcher, watches, crashed, pcS,
                   done, pcStop, nStops, nErrors, panicked>>

----------------------------------------------------------------------------
(* The environment. *)

\* the clock advances
Tick(d) ==
    /\ ~crashed
    /\ ticks < MaxTicks
    /\ now' = now + d
    /\ ticks' = ticks + 1
    /\ UNCHANGED <<nEvents, dirs, fsWatcher, watches, pcW, ev, nowW, feW,
                   eventBuffer, heap, debounceTimer, sweep, win, crashed, timers, life>>

\* `case event, ok := <-w.fsWatcher.Events` receives event e
Receive(e) ==
    /\ ~crashed
    /\ pcW = "select"
    /\ fsWatcher = "open"
    /\ IF isMarkdownFile(e.name)
       THEN nEvents < MaxEvents /\ nEvents' = nEvents + 1
       ELSE nEvents' = nEvents
    /\ ev' = e
    /\ pcW' = "L108"

\* an operation on a regular file of a watched directory is reported
FileEvent(p, op) ==
    /\ Dir(p) \in watches
    /\ Receive([name |-> p, op |-> op])
    /\ UNCHANGED <<now, ticks, dirs, fsWatcher, watches, nowW, feW,
                   eventBuffer, heap, debounceTimer, sweep, win, crashed, timers, life>>

\* the time between two events of a burst: less than the quiet window
BurstMs == DebounceMs - 1

\* the clock advances by BurstMs, once the counted events have arrived;
\* no timer is due, no callback is running and no event is being handled:
\* timers and goroutines are served on time
BurstTick ==
    /\ ~crashed
    /\ nEvents = MaxEvents
    /\ now + BurstMs <= MaxClock
    /\ pcW = "select"
    /\ \A t \in timers : now < t
    /\ \A s \in Sweepers : sweep[s].pc = Idle
    /\ now' = now + BurstMs
    /\ UNCHANGED <<ticks, nEvents, dirs, fsWatcher, watches, pcW, ev, nowW,
                   feW, eventBuffer, heap, debounceTimer, sweep, win, crashed,
                   timers, life>>

\* one more event of a burst for file p is received, the first at this
\* time of the clock, while no timer is due and no callback is running;
\* the events of a burst are limited by the clock and are not counted
BurstEvent(p, op) ==
    /\ ~crashed
    /\ pcW = "select"
    /\ fsWatcher = "open"
    /\ Dir(p) \in watches
    /\ \A t \in timers : now < t
    /\ \A s \in Sweepers : sweep[s].pc = Idle
    /\ IF eventBuffer[p] = Nil THEN TRUE
       ELSE heap[eventBuffer[p]].lastSeen < now
    /\ ev' = [name |-> p, op |-> op]
    /\ pcW' = "L108"
    /\ UNCHANGED <<now, ticks, nEvents, dirs, fsWatcher, watches, nowW, feW,
                   eventBuffer, heap, debounceTimer, sweep, win, crashed,
                   timers, life>>

\* mkdir d while the watcher runs: reported as a Create event when the
\* parent is watched
Mkdir(d) ==
    /\ ~crashed
    /\ fsWatcher = "open"
    /\ d \notin dirs
    /\ Dir(d) \in dirs
    /\ dirs' = dirs \cup {d}
    /\ IF Dir(d) \in watches
       THEN Receive([name |-> d, op |-> {"Create"}])
       ELSE UNCHANGED <<nEvents, ev, pcW>>
    /\ UNCHANGED <<now, ticks, fsWatcher, watches, nowW, feW, eventBuffer,
                   heap, debounceTimer, sweep, win, crashed, timers, life>>

\* rmdir d at any moment: the source drops the watch of d
Rmdir(d) ==
    /\ ~crashed
    /\ d \in dirs
    /\ \A q \in dirs : Dir(q) # d
    /\ dirs' = dirs \ {d}
    /\ watches' = watches \ {d}
    /\ UNCHANGED <<now, ticks, nEvents, fsWatcher, pcW, ev, nowW, feW,
                   eventBuffer, heap, debounceTimer, sweep, win, crashed,
                   timers, life>>

----------------------------------------------------------------------------
(* Watcher.bufferEvent on the watch goroutine. *)

\* lines 89, 108-110: an event for a path that is neither a markdown file
\* nor a directory is received and dropped
IgnoreEvent(p, op) ==
    /\ ~crashed
    /\ pcW = "select"
    /\ fsWatcher = "open"
    /\ Dir(p) \in watches
    /\ ~isMarkdownFile(p) /\ ~isDirectory(p)
    /\ UNCHANGED vars

\* Watcher.handleDirectoryEvent: the set of watches after the call
handleDirectoryEvent(e) ==
    IF "Create" \in e.op /\ fsWatcher = "open"
    THEN watches \cup {e.name}
    ELSE watches

\* lines 108-110: the first test, with an os.Stat of its own: an event for
\* a path that is neither a markdown file nor a directory is dropped
Filter ==
    /\ ~crashed
    /\ pcW = "L108"
    /\ pcW' = IF ~isMarkdownFile(ev.name) /\ ~isDirectory(ev.name)
              THEN "select" ELSE "L112"
    /\ ev' = IF ~isMarkdownFile(ev.name) /\ ~isDirectory(ev.name)
             THEN NoEvent ELSE ev
    /\ UNCHANGED <<now, ticks, nEvents, dirs, fsWatcher, watches, nowW, feW,
                   eventBuffer, heap, debounceTimer, sweep, win, crashed,
                   timers, life>>

\* lines 112-115: the second os.Stat says directory: the event goes to
\* handleDirectoryEvent; return
DirectoryEvent ==
    /\ ~crashed
    /\ pcW = "L112"
    /\ isDirectory(ev.name)
    /\ watches' = handleDirectoryEvent(ev)
    /\ pcW' = "select"
    /\ ev' = NoEvent
    /\ UNCHANGED <<now, ticks, nEvents, dirs, fsWatcher, nowW, feW,
                   eventBuffer, heap, debounceTimer, sweep, win, crashed, timers, life>>

\* lines 89, 108-115: an event other than Create for an existing directory
\* (a chmod) is received, goes to handleDirectoryEvent and changes nothing
DirectoryNoise(d, op) ==
    /\ ~crashed
    /\ pcW = "select"
    /\ fsWatcher = "open"
    /\ Dir(d) \in watches
    /\ isDirectory(d)
    /\ watches' = handleDirectoryEvent([name |-> d, op |-> op])
    /\ UNCHANGED <<now, ticks, nEvents, dirs, fsWatcher, pcW, ev, nowW, feW,
                   eventBuffer, heap, debounceTimer, sweep, win, crashed, timers, life>>

\* lines 112-121: the second os.Stat says no directory;
\* now := time.Now(); fe, exists := w.eventBuffer[event.Name]
LookupEntry ==
    /\ ~crashed
    /\ pcW = "L112"
    /\ ~isDirectory(ev.name)
    /\ nowW' = now
    /\ feW' = eventBuffer[ev.name]
    /\ pcW' = IF eventBuffer[ev.name] = Nil THEN "L124" ELSE "L128"
    /\ UNCHANGED <<now, ticks, nEvents, dirs, fsWatcher, watches, ev,
                   eventBuffer, heap, debounceTimer, sweep, win, crashed, timers, life>>

\* a range loop in progress may or may not produce a key inserted meanwhile
NoteInsert(sw, p) ==
    [s \in Sweepers |->
        IF sw[s].pc \in {Idle, "L168"} THEN sw[s]
        ELSE [sw[s] EXCEPT !.must = @ \ {p}, !.may = @ \cup {p},
                           !.clean = FALSE]]

\* the next of the four flag tests (lines 130, 135, 140, 145) that holds
\* at or after line k, else line 150
FlagLine(op, k) ==
    IF k <= 130 /\ "Create" \in op THEN "L130"
    ELSE IF k <= 135 /\ "Write" \in op THEN "L135"
    ELSE IF k <= 140 /\ "Remove" \in op THEN "L140"
    ELSE IF k <= 145 /\ "Rename" \in op THEN "L145"
    ELSE "L150"

\* lines 124-128: fe = &fileEvent{..., lastSeen: now};
\* w.eventBuffer[event.Name] = fe; line 128 stores the same lastSeen again
InsertEntry ==
    /\ ~crashed
    /\ pcW = "L124"
    /\ feW' = FreshId
    /\ heap' = [heap EXCEPT ![FreshId] = NewFileEvent(nowW)]
    /\ eventBuffer' = [eventBuffer EXCEPT ![ev.name] = FreshId]
    /\ sweep' = NoteInsert(sweep, ev.name)
    /\ pcW' = FlagLine(ev.op, 130)
    /\ nowW' = 0
    /\ UNCHANGED <<now, ticks, nEvents, dirs, fsWatcher, watches, ev,
                   debounceTimer, win, crashed, timers, life>>

\* line 128: fe.lastSeen = now
StampEntry ==
    /\ ~crashed
    /\ pcW = "L128"
    /\ heap' = [heap EXCEPT ![feW].lastSeen = nowW]
    /\ pcW' = FlagLine(ev.op, 130)
    /\ nowW' = 0
    /\ UNCHANGED <<now, ticks, nEvents, dirs, fsWatcher, watches, ev,
                   feW, eventBuffer, debounceTimer, sweep, win, crashed, timers, life>>

\* the record of the flags set since a sweep last began also tells whether
\* the last create came after a remove or rename: the file is there again
Recreate(flags) ==
    IF "isDeleted" \in flags THEN flags \cup {"recreated"} ELSE flags

\* lines 130-133: fe.isNew = true
SetNew ==
    /\ ~crashed
    /\ pcW = "L130"
    /\ heap' = [heap EXCEPT ![feW].isNew = TRUE]
    /\ win' = [win EXCEPT ![ev.name] = Recreate(@) \cup {"isNew"}]
    /\ pcW' = FlagLine(ev.op, 135)
    /\ UNCHANGED <<now, ticks, nEvents, dirs, fsWatcher, watches, ev, nowW,
                   feW, eventBuffer, debounceTimer, sweep, crashed, timers, life>>

\* line 137 as an assignment of the whole flag set: isModified is set and
\* the other flags are cleared
SetModifiedOnly ==
    /\ ~crashed
    /\ pcW = "L135"
    /\ heap' = [heap EXCEPT ![feW].isModified = TRUE, ![feW].isNew = FALSE,
                            ![feW].isDeleted = FALSE]
    /\ win' = [win EXCEPT ![ev.name] = @ \cup {"isModified"}]
    /\ pcW' = FlagLine(ev.op, 140)
    /\ UNCHANGED <<now, ticks, nEvents, dirs, fsWatcher, watches, ev, nowW,
                   feW, eventBuffer, debounceTimer, sweep, crashed, timers, life>>

\* lines 135-138: fe.isModified = true
SetModified ==
    /\ ~crashed
    /\ pcW = "L135"
    /\ heap' = [heap EXCEPT ![feW].isModified = TRUE]
    /\ win' = [win EXCEPT ![ev.name] = @ \cup {"isModified"}]
    /\ pcW' = FlagLine(ev.op, 140)
    /\ UNCHANGED <<now, ticks, nEvents, dirs, fsWatcher, watches, ev, nowW,
                   feW, eventBuffer, debounceTimer, sweep, crashed, timers, life>>

\* lines 140-143 (Remove) and 145-148 (Rename): fe.isDeleted = true
SetDeleted ==
    /\ ~crashed
    /\ pcW \in {"L140", "L145"}
    /\ heap' = [heap EXCEPT ![feW].isDeleted = TRUE]
    /\ win' = [win EXCEPT ![ev.name] = (@ \ {"recreated"}) \cup {"isDeleted"}]
    /\ pcW' = FlagLine(ev.op, IF pcW = "L140" THEN 145 ELSE 150)
    /\ UNCHANGED <<now, ticks, nEvents, dirs, fsWatcher, watches, ev, nowW,
                   feW, eventBuffer, debounceTimer, sweep, crashed, timers, life>>

\* lines 150-152: w.debounceTimer.Stop() takes the timer t out of the armed
\* timers ts, unless it has expired already
StopTimer(ts, t) == IF t.state = "armed" THEN ts \ {t.deadline} ELSE ts

\* lines 150-155: stop the previous timer, arm a new one; return
RestartTimer ==
    /\ ~crashed
    /\ pcW = "L150"
    /\ debounceTimer' = [state |-> "armed", deadline |-> now + DebounceMs]
    /\ timers' = StopTimer(timers, debounceTimer) \cup {now + DebounceMs}
    /\ pcW' = "select"
    /\ ev' = NoEvent
    /\ feW' = Nil
    /\ heap' = Collect(heap, eventBuffer, Nil, sweep)
    /\ UNCHANGED <<now, ticks, nEvents, dirs, fsWatcher, watches, nowW,
                   eventBuffer, sweep, win, crashed, life>>

----------------------------------------------------------------------------
(* The debounce timer and Watcher.processBufferedEvents, one goroutine per *)
(* expired timer.                                                          *)

FreeSweeper == CHOOSE s \in Sweepers :
    /\ sweep[s].pc = Idle
    /\ \A t \in Sweepers : t < s => sweep[t].pc # Idle

\* an armed timer expires: the runtime starts the callback's goroutine
TimerFire ==
    /\ ~crashed
    /\ \E s \in Sweepers : sweep[s].pc = Idle
    /\ \E d \in timers :
          /\ now >= d
          /\ timers' = timers \ {d}
          /\ debounceTimer' =
                IF debounceTimer.state = "armed" /\ debounceTimer.deadline = d
                THEN [state |-> "fired", deadline |-> 0]
                ELSE debounceTimer
    /\ sweep' = [sweep EXCEPT ![FreeSweeper] =
                    [IdleSweep EXCEPT !.pc = "L168"]]
    /\ UNCHANGED <<now, ticks, nEvents, dirs, fsWatcher, watches, pcW, ev,
                   nowW, feW, eventBuffer, heap, win, crashed, life>>

Keys == {p \in BufferPaths : eventBuffer[p] # Nil}

\* line 168 and the start of the range loop: every key present must be
\* produced unless it is removed first
SweepBegin(s) ==
    /\ ~crashed
    /\ sweep[s].pc = "L168"
    /\ sweep' = [sweep EXCEPT ![s].pc = "L170", ![s].now = now,
                              ![s].must = Keys, ![s].clean = TRUE,
                              ![s].batch = win]
    /\ win' = EmptyWin
    /\ UNCHANGED <<now, ticks, nEvents, dirs, fsWatcher, watches, pcW, ev,
                   nowW, feW, eventBuffer, heap, debounceTimer, crashed, timers, life>>

\* line 172: now.Sub(fe.lastSeen) > 5*time.Second
IsStale(t, lastSeen) == t - lastSeen > StaleMs

\* lines 170-172: the range loop produces the next key and its pointer,
\* and the body tests the entry's age
SweepNext(s) ==
    /\ ~crashed
    /\ sweep[s].pc = "L170"
    /\ \E p \in (sweep[s].must \cup sweep[s].may) \cap Keys :
          sweep' = [sweep EXCEPT
                       ![s].path = p,
                       ![s].fe = eventBuffer[p],
                       ![s].must = @ \ {p},
                       ![s].may = @ \ {p},
                       ![s].pc = IF IsStale(sweep[s].now,
                                            heap[eventBuffer[p]].lastSeen)
                                 THEN "L173" ELSE "L178"]
    /\ UNCHANGED <<now, ticks, nEvents, dirs, fsWatcher, watches, pcW, ev,
                   nowW, feW, eventBuffer, heap, debounceTimer, win, crashed, timers, life>>

\* lines 170, 203: the range loop ends and processBufferedEvents returns;
\* keys inserted during the loop may have been skipped
SweepEnd(s) ==
    /\ ~crashed
    /\ sweep[s].pc = "L170"
    /\ sweep[s].must \cap Keys = {}
    /\ sweep' = [sweep EXCEPT ![s] = IdleSweep]
    /\ UNCHANGED <<now, ticks, nEvents, dirs, fsWatcher, watches, pcW, ev,
                   nowW, feW, eventBuffer, heap, debounceTimer, win, crashed, timers, life>>

\* delete(w.eventBuffer, path) and the end of the loop body
DeleteAndLoop(s) ==
    /\ eventBuffer' = [eventBuffer EXCEPT ![sweep[s].path] = Nil]
    /\ sweep' = [sweep EXCEPT ![s].pc = "L170", ![s].path = <<>>,
                              ![s].fe = Nil, ![s].n = FALSE]
    /\ heap' = Collect(heap, eventBuffer', feW, sweep')

\* the stale branch as a bare `continue`: the entry is skipped and stays in
\* the map
SweepSkipStale(s) ==
    /\ ~crashed
    /\ sweep[s].pc = "L173"
    /\ sweep' = [sweep EXCEPT ![s].pc = "L170", ![s].path = <<>>,
                              ![s].fe = Nil, ![s].n = FALSE]
    /\ heap' = Collect(heap, eventBuffer, feW, sweep')
    /\ UNCHANGED <<now, ticks, nEvents, dirs, fsWatcher, watches, pcW, ev,
                   nowW, feW, eventBuffer, debounceTimer, win, crashed, timers, life>>

\* lines 173-174: a stale entry is deleted without a log line
SweepDropStale(s) ==
    /\ ~crashed
    /\ sweep[s].pc = "L173"
    /\ DeleteAndLoop(s)
    /\ UNCHANGED <<now, ticks, nEvents, dirs, fsWatcher, watches, pcW, ev,
                   nowW, feW, debounceTimer, win, crashed, timers, life>>

\* lines 178-199: the branch taken for flag values d, n, m
Resolve(d, n, m) ==
    IF d THEN "deleted"
    ELSE IF n /\ ~m THEN "created-empty"
    ELSE IF n /\ m THEN "created"
    ELSE IF m THEN "modified"
    ELSE "unknown"

\* the log line of the branch; every branch but "unknown" is a logical event
Log(sw, s, h, kind) ==
    /\ sweep' = [sw EXCEPT ![s].out = Append(@, <<sw[s].path, kind>>),
                           ![s].n = FALSE, ![s].pc = "L201"]
    /\ heap' = IF kind = "unknown" THEN h
               ELSE [h EXCEPT ![sw[s].fe].disp = @ + 1]

\* line 178: read fe.isDeleted
SweepReadDeleted(s) ==
    /\ ~crashed
    /\ sweep[s].pc = "L178"
    /\ IF heap[sweep[s].fe].isDeleted
       THEN Log(sweep, s, heap, Resolve(TRUE, FALSE, FALSE))
       ELSE /\ sweep' = [sweep EXCEPT ![s].pc = "L182"]
            /\ heap' = heap
    /\ UNCHANGED <<now, ticks, nEvents, dirs, fsWatcher, watches, pcW, ev,
                   nowW, feW, eventBuffer, debounceTimer, win, crashed, timers, life>>

\* lines 182, 187: read fe.isNew
SweepReadNew(s) ==
    /\ ~crashed
    /\ sweep[s].pc = "L182"
    /\ sweep' = [sweep EXCEPT ![s].n = heap[sweep[s].fe].isNew,
                              ![s].pc = "L192"]
    /\ UNCHANGED <<now, ticks, nEvents, dirs, fsWatcher, watches, pcW, ev,
                   nowW, feW, eventBuffer, heap, debounceTimer, win, crashed, timers, life>>

\* lines 182, 187, 192: read fe.isModified and log the branch
SweepReadModified(s) ==
    /\ ~crashed
    /\ sweep[s].pc = "L192"
    /\ Log(sweep, s, heap,
           Resolve(FALSE, sweep[s].n, heap[sweep[s].fe].isModified))
    /\ UNCHANGED <<now, ticks, nEvents, dirs, fsWatcher, watches, pcW, ev,
                   nowW, feW, eventBuffer, debounceTimer, win, crashed, timers, life>>

\* line 201: delete(w.eventBuffer, path)
SweepDelete(s) ==
    /\ ~crashed
    /\ sweep[s].pc = "L201"
    /\ DeleteAndLoop(s)
    /\ UNCHANGED <<now, ticks, nEvents, dirs, fsWatcher, watches, pcW, ev,
                   nowW, feW, debounceTimer, win, crashed, timers, life>>

----------------------------------------------------------------------------
(* The Go runtime detects some unsynchronised map accesses and stops the   *)
(* process: "fatal error: concurrent map writes" (or "... map read and map *)
(* write", "... map iteration and map write").  Nothing of the process is  *)
(* left: every variable is reset and crashed is set.                       *)

\* goroutine identifiers: the sweepers, and 0 for the watch goroutine
Watch == 0

MapWriters ==
    (IF pcW = "L124" THEN {Watch} ELSE {})
        \cup {s \in Sweepers : sweep[s].pc \in {"L173", "L201"}}
MapReaders ==
    (IF pcW = "L112" /\ ~isDirectory(ev.name)
     THEN {Watch} ELSE {})
        \cup {s \in Sweepers : sweep[s].pc = "L170"}

FatalMapAccess ==
    /\ ~crashed
    /\ \E g \in MapWriters : (MapWriters \cup MapReaders) \ {g} # {}
    /\ Halt(FALSE)

----------------------------------------------------------------------------

Program ==
    \/ Start
    \/ Filter
    \/ DirectoryEvent
    \/ LookupEntry
    \/ InsertEntry
    \/ StampEntry
    \/ SetNew
    \/ SetModified
    \/ SetDeleted
    \/ RestartTimer
    \/ TimerFire
    \/ \E s \in Sweepers : SweepBegin(s)
    \/ \E s \in Sweepers : SweepNext(s)
    \/ \E s \in Sweepers : SweepEnd(s)
    \/ \E s \in Sweepers : SweepDropStale(s)
    \/ \E s \in Sweepers : SweepReadDeleted(s)
    \/ \E s \in Sweepers : SweepReadNew(s)
    \/ \E s \in Sweepers : SweepReadModified(s)
    \/ \E s \in Sweepers : SweepDelete(s)
    \/ FatalMapAccess

(* At Start the file system holds the root with the directories old and    *)
(* .hid; the directories sub and .new are created later, and the files are *)
(* sub/s.md, .new/n.md and x.txt in the root.                              *)
(* Every operation mask of OpMasks occurs on sub/s.md; .new/n.md is only   *)
(* created.                                                                *)
Init == Boot({{Root, Old, Hid}})

Next ==
    \/ Program
    \/ \E d \in {DebounceMs, StaleMs} : Tick(d)
    \/ \E op \in OpMasks : FileEvent(FileS, op)
    \/ FileEvent(FileN, {"Create"})
    \/ IgnoreEvent(FileX, {"Write"})
    \/ \E d \in NewDirs : Mkdir(d)
    \/ \E d \in NewDirs : DirectoryNoise(d, {"Chmod"})

Spec == Init /\ [][Next]_vars

(* Start, Stop and the error stream.  The file system holds the tree of    *)
(* Init, or nothing at all: the root does not exist.  Start and Stop run   *)
(* statement by statement in goroutines of their own, the directory sub is *)
(* created and sub/s.md is created in it.                                  *)
InitLife == Boot({{Root, Old, Hid}, {}})

Lifecycle ==
    \/ StartCall
    \/ StartNewWatcher
    \/ StartNewWatcherFails
    \/ StartAddRecursive
    \/ StartGoWatch
    \/ StartReturn
    \/ StopCall
    \/ StopCheck
    \/ StopCloseDone
    \/ StopClose
    \/ WatchError
    \/ WatchExit

Coalesce ==
    \/ Filter
    \/ DirectoryEvent
    \/ LookupEntry
    \/ InsertEntry
    \/ StampEntry
    \/ SetNew
    \/ RestartTimer
    \/ TimerFire
    \/ \E s \in Sweepers : SweepBegin(s)
    \/ \E s \in Sweepers : SweepNext(s)
    \/ \E s \in Sweepers : SweepEnd(s)
    \/ \E s \in Sweepers : SweepReadDeleted(s)
    \/ \E s \in Sweepers : SweepReadNew(s)
    \/ \E s \in Sweepers : SweepReadModified(s)
    \/ \E s \in Sweepers : SweepDelete(s)
    \/ FatalMapAccess

NextLife ==
    \/ Lifecycle
    \/ Coalesce
    \/ Tick(DebounceMs)
    \/ Mkdir(Sub)
    \/ FileEvent(FileS, {"Create"})

SpecLife == InitLife /\ [][NextLife]_vars

(* The filter of bufferEvent.  The directory sub is created and removed    *)
(* while the watcher runs; events arrive for sub/s.md, for sub itself and  *)
(* for files of the root that are no markdown files: x.txt, U.MD, .d.md    *)
(* and ~t.md.  No timer fires.                                             *)
NextFilter ==
    \/ Start
    \/ Mkdir(Sub)
    \/ Rmdir(Sub)
    \/ FileEvent(Sub, {"Remove"})
    \/ FileEvent(FileS, {"Create"})
    \/ \E p \in OtherFiles : \E op \in {{"Create"}, {"Write"}} : FileEvent(p, op)
    \/ Filter
    \/ DirectoryEvent
    \/ LookupEntry
    \/ InsertEntry
    \/ StampEntry
    \/ SetNew
    \/ SetDeleted
    \/ RestartTimer

SpecFilter == Init /\ [][NextFilter]_vars

(* A burst.  The directory sub is created and sub/s.md is written         *)
(* MaxEvents times; then the clock runs and events for old/o.md arrive     *)
(* BurstMs apart, or stop, up to MaxClock.  The clock only advances when   *)
(* every timer that is due has fired and its sweep has returned, and no    *)
(* event of the burst arrives while a sweep runs: bufferEvent and the      *)
(* sweeps never overlap here.                                              *)
NextStarve ==
    \/ Start
    \/ Mkdir(Sub)
    \/ FileEvent(FileS, {"Write"})
    \/ BurstEvent(FileO, {"Write"})
    \/ BurstTick
    \/ Filter
    \/ DirectoryEvent
    \/ LookupEntry
    \/ InsertEntry
    \/ StampEntry
    \/ SetModified
    \/ RestartTimer
    \/ TimerFire
    \/ \E s \in Sweepers : SweepBegin(s)
    \/ \E s \in Sweepers : SweepNext(s)
    \/ \E s \in Sweepers : SweepEnd(s)
    \/ \E s \in Sweepers : SweepDropStale(s)
    \/ \E s \in Sweepers : SweepReadDeleted(s)
    \/ \E s \in Sweepers : SweepReadNew(s)
    \/ \E s \in Sweepers : SweepReadModified(s)
    \/ \E s \in Sweepers : SweepDelete(s)

SpecStarve == Init /\ [][NextStarve]_vars

(* The scheduler runs every goroutine that can take a step: the steps of   *)
(* Start, Stop, watch and the sweeps are taken when they stay enabled.     *)
(* Calls of Start and Stop, events, errors and the clock are not forced.   *)
Scheduled ==
    \/ StartNewWatcher
    \/ StartNewWatcherFails
    \/ StartAddRecursive
    \/ StartGoWatch
    \/ StartReturn
    \/ StopCheck
    \/ StopCloseDone
    \/ StopClose
    \/ WatchExit
    \/ Coalesce

SpecLifeFair == SpecLife /\ WF_vars(Scheduled)

(* The scheduler serves every goroutine and every timer that is due, and  *)
(* the clock goes on as long as its bound allows.  Events are not forced.  *)
SpecFair == Spec /\ WF_vars(Program) /\ WF_vars(Tick(DebounceMs))

(* The executions in which bufferEvent and the sweeps exclude one another,  *)
(* as a lock around lines 121-148 and 170-202 would make them.  The code    *)
(* has no such lock; these executions tell the properties that fail through *)
(* the missing exclusion alone from those that fail without it.            *)
Exclusive ==
    /\ \A s \in Sweepers :
          ~(/\ pcW \in {"L124", "L128", "L130", "L135", "L140", "L145"}
            /\ sweep[s].pc # Idle /\ sweep[s].pc # "L168")
    /\ \A s, t \in Sweepers :
          s # t => \/ sweep[s].pc \in {Idle, "L168"}
                   \/ sweep[t].pc \in {Idle, "L168"}

SpecSerial == Init /\ [][Next /\ ~FatalMapAccess /\ Exclusive']_vars

----------------------------------------------------------------------------
(* Properties. *)

\* bufferEvent is between its map lookup (line 121) and its last write to
\* the entry (line 147)
InBufferEvent == pcW \in {"L124", "L128", "L130", "L135", "L140", "L145"}

\* processBufferedEvents is inside its range loop (lines 170-202)
InSweep(s) ==
    sweep[s].pc \in {"L170", "L173", "L178", "L182", "L192", "L201"}

\* C1: bufferEvent and processBufferedEvents are never both inside their
\* read/write section of eventBuffer, and two processBufferedEvents sweeps
\* are never active at the same time.
C1_MutualExclusion ==
    /\ \A s \in Sweepers : ~(InBufferEvent /\ InSweep(s))
    /\ \A s, t \in Sweepers : s # t => ~(InSweep(s) /\ InSweep(t))

\* the flags of the event in hand that bufferEvent has still to set in the
\* entry it holds
PendingFlags ==
    IF pcW \in {"L128", "L130", "L135", "L140", "L145"}
    THEN {f \in FlagsOf(ev.op) : ~heap[feW][f]}
    ELSE {}

\* sweep s has read the entry and is about to delete its key
AboutToDelete(s) == sweep[s].pc \in {"L173", "L201"}

\* C2: no notification is lost: a sweep never deletes an entry whose flags
\* an ingest updates after the sweep read them.  Stated on the state before
\* the loss: no sweep is about to delete the entry that bufferEvent holds
\* while bufferEvent has flags of its event still to set in it (such a flag
\* reaches an entry that is deleted unread or is already out of the map, so
\* no sweep resolves it).
C2_NoLostNotification ==
    \A s \in Sweepers :
        ~(AboutToDelete(s) /\ sweep[s].fe = feW /\ PendingFlags # {})

\* C3: no notification is duplicated: one pending entry causes at most one
\* logical event to be dispatched, also when an earlier timer callback is
\* still running while a newly armed timer fires.
C3_NoDuplicate == \A i \in Ids : heap[i].disp <= 1

\* the logical events sweep s has dispatched for path p so far
Logical(s, p) ==
    SelectSeq(sweep[s].out, LAMBDA e : e[1] = p /\ e[2] # "unknown")

\* sweep s has logged the outcome of the entry it holds (line 201 is next)
Resolved(s) == sweep[s].pc = "L201"

\* C4: a path that received create and write (two events or one combined
\* mask) and no remove/rename before the sweep yields exactly one logical
\* event, and it is `created`: once the sweep has resolved the path, its
\* events for the path are the single `created`, and the entry has been
\* dispatched once.
C4_CreateThenWrite ==
    \A s \in Sweepers :
        (/\ Resolved(s)
         /\ {"isNew", "isModified"} \subseteq sweep[s].batch[sweep[s].path]
         /\ "isDeleted" \notin sweep[s].batch[sweep[s].path])
        => /\ Logical(s, sweep[s].path) = << <<sweep[s].path, "created">> >>
           /\ heap[sweep[s].fe].disp = 1

\* C5: a path whose entry has the deleted flag set when the sweep runs
\* yields exactly one `deleted` event and no other logical event for that
\* path in that sweep: when a remove or rename was ingested before the sweep
\* began, then as soon as the sweep has logged anything for the path its
\* logical events for the path are the single `deleted`.
C5_DeletedWins ==
    \A s \in Sweepers : \A p \in MdFiles :
        (/\ "isDeleted" \in sweep[s].batch[p]
         /\ \E i \in 1..Len(sweep[s].out) : sweep[s].out[i][1] = p)
        => Logical(s, p) = << <<p, "deleted">> >>

\* the resolution table of the specification, by flag triple
ResolutionTable(fe) ==
    CASE fe.isDeleted -> "deleted"
      [] ~fe.isDeleted /\ fe.isNew /\ ~fe.isModified -> "created-empty"
      [] ~fe.isDeleted /\ fe.isNew /\ fe.isModified -> "created"
      [] ~fe.isDeleted /\ ~fe.isNew /\ fe.isModified -> "modified"
      [] ~fe.isDeleted /\ ~fe.isNew /\ ~fe.isModified -> "unknown"

\* sweep s logs the outcome of its entry in this step
Logs(s) == sweep[s].pc \in {"L178", "L192"} /\ sweep'[s].pc = "L201"

\* the outcome sweep s has just logged
Outcome(s) == sweep'[s].out[Len(sweep'[s].out)][2]

\* C6: the outcome of a non-stale entry is the resolution table applied to
\* the entry's flag triple at the moment of the outcome; a path that
\* received only create yields `created-empty`, a path that received only
\* write yields `modified`.
C6_ResolutionTable ==
    [][\A s \in Sweepers :
          Logs(s) =>
            /\ Outcome(s) = ResolutionTable(heap[sweep[s].fe])
            /\ sweep[s].batch[sweep[s].path] = {"isNew"}
                  => Outcome(s) = "created-empty"
            /\ sweep[s].batch[sweep[s].path] = {"isModified"}
                  => Outcome(s) = "modified"]_vars

\* the age of the entry sweep s holds, at the time the sweep runs
Age(s) == sweep[s].now - heap[sweep[s].fe].lastSeen

\* C7: an entry older than the stale threshold at the time of the sweep is
\* removed without a logical event, and an entry whose age is at most the
\* threshold is never dropped as stale: the sweep is on the stale branch
\* only for an entry older than the threshold and on the resolving branch
\* only for one that is not, and the stale branch removes the key and logs
\* nothing.
C7_StaleDrop ==
    /\ [](\A s \in Sweepers :
            /\ sweep[s].pc = "L173" => Age(s) > StaleMs
            /\ sweep[s].pc \in {"L178", "L182", "L192"} => Age(s) <= StaleMs)
    /\ [][\A s \in Sweepers :
            (sweep[s].pc = "L173" /\ sweep'[s].pc = "L170")
            => /\ eventBuffer'[sweep[s].path] = Nil
               /\ sweep'[s].out = sweep[s].out]_vars

C9_NoHiddenWatch ==
    /\ \A d \in watches : d = Root \/ ~HasPrefix(d, ".")
    /\ \A p \in MdFiles : HasPrefix(Dir(p), ".") => eventBuffer[p] = Nil

\* bufferEvent returns from handleDirectoryEvent for a Create event of a
\* directory that is not hidden
RegistersNewDirectory ==
    /\ pcW = "L112" /\ pcW' = "select"
    /\ isDirectory(ev.name)
    /\ "Create" \in ev.op
    /\ ~HasPrefix(ev.name, ".")

\* the markdown files of the non-hidden directories created after Start
NewDirFiles == {p \in MdFiles : Dir(p) \in NewDirs /\ ~HasPrefix(Dir(p), ".")}

\* C10: a directory-create event for a non-hidden subdirectory adds exactly
\* that directory to the registered set, and a markdown file created in it
\* afterwards gets a pending entry that a sweep resolves to `created` or
\* `created-empty`: the entry of a create ingested before the sweep, not
\* flagged deleted, has one of these two outcomes, and no sweep is about to
\* delete the entry while bufferEvent has still to record the create in it.
C10_NewDirectory ==
    /\ [][RegistersNewDirectory => watches' = watches \cup {ev.name}]_vars
    /\ [][\A s \in Sweepers :
            (/\ Logs(s)
             /\ sweep[s].path \in NewDirFiles
             /\ "isNew" \in sweep[s].batch[sweep[s].path]
             /\ ~heap[sweep[s].fe].isDeleted)
            => Outcome(s) \in {"created", "created-empty"}]_vars
    /\ [](\A s \in Sweepers :
            ~(/\ AboutToDelete(s)
              /\ sweep[s].path \in NewDirFiles
              /\ sweep[s].fe = feW
              /\ "isNew" \in PendingFlags))


----------------------------------------------------------------------------
(* Start, Stop and the error stream. *)

\* C11: when fsnotify.NewWatcher fails (the source is nil after line 50) or
\* the root directory does not exist, Start returns an error: it does not
\* launch the watch goroutine and does not wait on w.done
C11_StartFails ==
    /\ (fsWatcher = "nil" /\ pcS \notin {Idle, "L50"})
          => (pcS = "returned error" /\ pcW = Idle)
    /\ (Root \notin dirs /\ pcS \notin {Idle, "L50", "L58"})
          => (pcS = "returned error" /\ pcW = Idle)

\* a call of Stop has returned
StopReturned == nStops >= 1 /\ pcStop = Idle

\* C12: when Stop is at its first statement and Start has been invoked,
\* then Start returns nil, the source is closed and the watch goroutine has
\* exited (unless the process died, or Start returned an error because the
\* source could not be created)
C12_StopUnblocksStart ==
    (pcS \notin {Idle, "returned error"} /\ pcStop = "L207")
        ~> \/ crashed
           \/ pcS = "returned error"
           \/ pcS = "returned nil" /\ fsWatcher = "closed" /\ pcW = "exit"

\* C13: no call of Stop panics
C13_StopIdempotent == ~panicked

\* C14: a call of Stop on a handle whose Start was never called returns at
\* once and leaves w.done, the source, the pending set and the timer as
\* they are; w.done is closed only by a Stop that found a source, and Start
\* returns nil only when w.done is closed
C14_StopBeforeStart ==
    /\ [][(pcS = Idle /\ pcStop = "L207" /\ pcStop' # "L207")
            => /\ pcStop' = Idle
               /\ UNCHANGED <<pcS, done, fsWatcher, watches, pcW, eventBuffer,
                              heap, debounceTimer, timers, sweep>>]_vars
    /\ [](done = "closed" => fsWatcher # "nil")
    /\ [](pcS = "returned nil" => done = "closed")

\* a Stop on a handle never started has returned
C14_StoppedUnstarted ==
    pcS = Idle /\ StopReturned /\ done = "open" /\ fsWatcher = "nil"

\* C15: once Stop has closed the source and returned, no debounce timer is
\* armed and no sweep runs
C15_NoLeakedWork ==
    (fsWatcher = "closed" /\ pcStop = Idle)
        => (timers = {} /\ \A s \in Sweepers : sweep[s].pc = Idle)

\* C16: an item of the error stream leaves the watch goroutine in its
\* select and the pending set, the timer and the source as they are; the
\* watch goroutine exits only when the source is closed
C16_ErrorsDoNotStop ==
    /\ [][nErrors' = nErrors + 1
            => /\ pcW = "select" /\ pcW' = "select"
               /\ UNCHANGED <<fsWatcher, watches, eventBuffer, heap,
                              debounceTimer, timers, sweep>>]_vars
    /\ [](pcW = "exit" => fsWatcher = "closed")

\* an event received after an error item is in bufferEvent
C16_IngestedAfterError ==
    nErrors >= 1 /\ fsWatcher = "open" /\ pcW = "L150"


----------------------------------------------------------------------------
(* The atomic save, registration and the filter. *)

\* C17: a path that received a remove or rename and then a create before
\* the sweep began, so that the file exists, yields exactly one logical
\* event, and that event is not `deleted`
C17_AtomicSave ==
    \A s \in Sweepers :
        (Resolved(s) /\ "recreated" \in sweep[s].batch[sweep[s].path])
        => /\ Len(Logical(s, sweep[s].path)) = 1
           /\ Logical(s, sweep[s].path)[1][2] # "deleted"
           /\ heap[sweep[s].fe].disp = 1


\* bufferEvent creates a pending entry or restarts the timer in this step
Buffers == pcW \in {"L124", "L150"} /\ pcW' # pcW

\* C19: an event whose path is neither a directory nor a markdown file
\* (extension exactly .md, base name not starting with . or ~) leaves the
\* pending set and the timer as they are; so does an event whose path is a
\* directory; pending entries are created and the timer is restarted for
\* markdown files only
C19_OnlyMarkdown ==
    [][/\ (pcW = "L108" /\ ~isMarkdownFile(ev.name) /\ ~isDirectory(ev.name))
            => /\ pcW' \in {"L108", "select"}
               /\ UNCHANGED <<eventBuffer, debounceTimer, timers>>
       /\ (pcW \in {"L108", "L112"} /\ isDirectory(ev.name))
            => /\ pcW' \in {"L108", "L112", "select"}
               /\ UNCHANGED <<eventBuffer, debounceTimer, timers>>
       /\ Buffers => isMarkdownFile(ev.name)]_vars


\* path p lies in or below a hidden directory under the root
InHidden(p) ==
    \E i \in (Len(Root) + 1)..Len(p) : HasPrefix(SubSeq(p, 1, i), ".")

\* C18: the initial registration passes to Add exactly the directories
\* under the root, root included, that are not in or below a hidden
\* directory: no regular file and no hidden directory is passed
C18_RegistersDirectories ==
    [][(pcS \in {Idle, "L58"} /\ pcS' \in {"L65", "L70"} /\ fsWatcher' = "open")
          => watches' = {d \in dirs : ~InHidden(d)}]_vars


----------------------------------------------------------------------------
(* The quiet window. *)

\* the pending entries
Pending == {eventBuffer[p] : p \in Keys}

\* C20: a bufferEvent call that reaches the pending set leaves exactly one
\* timer armed, for 100 ms from now; at most one timer is armed at any
\* time; and a sweep resolves an entry only when every pending entry was
\* last seen at least 100 ms ago
C20_GlobalQuietWindow ==
    /\ [][(pcW = "L150" /\ pcW' = "select")
            => timers' = {now + DebounceMs}]_vars
    /\ [](Cardinality(timers) <= 1)
    /\ [][\A s \in Sweepers :
            Logs(s) => \A i \in Pending : now - heap[i].lastSeen >= DebounceMs]_vars


----------------------------------------------------------------------------
(* The pending entries. *)

\* the flags that are set in fileEvent fe
Flags(fe) ==
    (IF fe.isNew THEN {"isNew"} ELSE {})
        \cup (IF fe.isModified THEN {"isModified"} ELSE {})
        \cup (IF fe.isDeleted THEN {"isDeleted"} ELSE {})

\* C21: a bufferEvent call sets in its entry every flag of the event's
\* operation mask (create: isNew, write: isModified, remove and rename:
\* isDeleted); no step clears a flag of a pending entry; a flag of a pending
\* entry changes only in the entry of the call in progress and only to a
\* flag of its mask; lastSeen becomes the time the call read; an entry is
\* created only for a path that has none, and a call for a pending path
\* works on the entry the map holds
C21_IngestUnion ==
    [][~crashed' =>
       /\ (pcW = "L150" /\ pcW' = "select")
            => FlagsOf(ev.op) \subseteq Flags(heap[feW])
       /\ \A i \in Pending \cap Pending' :
            /\ Flags(heap[i]) \subseteq Flags(heap'[i])
            /\ Flags(heap'[i]) # Flags(heap[i])
                 => /\ i = feW
                    /\ Flags(heap'[i]) \ Flags(heap[i]) \subseteq FlagsOf(ev.op)
       /\ (pcW \in {"L124", "L128"} /\ pcW' # pcW)
            => heap'[feW'].lastSeen = nowW
       /\ (pcW = "L124" /\ pcW' # pcW)
            => /\ eventBuffer[ev.name] = Nil
               /\ feW' \notin Pending
               /\ eventBuffer' = [eventBuffer EXCEPT ![ev.name] = feW']
       /\ (pcW = "L112" /\ pcW' = "L128")
            => feW' = eventBuffer[ev.name]]_vars

\* an entry holds the flags of two raw events, a create and a remove, and
\* no call is in progress
C21_UnionOfTwo ==
    /\ pcW = "select"
    /\ \E i \in Pending : Flags(heap[i]) = {"isNew", "isDeleted"}


\* C23: a bufferEvent call never leaves its entry without a flag when it
\* restarts the timer, so between calls every pending entry has a flag set,
\* and no sweep takes the branch of the unknown pattern
C23_SomeFlagSet ==
    /\ [][(pcW = "L150" /\ pcW' = "select") => Flags(heap[feW]) # {}]_vars
    /\ [](pcW = "select" => \A i \in Pending : Flags(heap[i]) # {})
    /\ [][\A s \in Sweepers : Logs(s) => Outcome(s) # "unknown"]_vars


\* the operations ingested for the path of sweep s before the sweep began,
\* as a set: their order and their number are not kept
Ingested(s) == sweep[s].batch[sweep[s].path] \ {"recreated"}

\* C24: the outcome a sweep logs for a path is determined by the set of the
\* operations ingested for the path since the last sweep began, whatever
\* their order and number
C24_OrderIndependent ==
    [][\A s \in Sweepers :
          Logs(s) => Outcome(s) = Resolve("isDeleted" \in Ingested(s),
                                          "isNew" \in Ingested(s),
                                          "isModified" \in Ingested(s))]_vars


\* timers and callbacks have been served on time: no timer is due and no
\* sweep is waiting to run or running
OnTime ==
    /\ \A t \in timers : now < t
    /\ \A s \in Sweepers : sweep[s].pc = Idle

\* C22: when timers and callbacks have been served on time, no pending
\* entry is older than the stale threshold plus one quiet window
C22_StaleBound ==
    OnTime => \A i \in Pending : now - heap[i].lastSeen <= StaleMs + DebounceMs


\* the qualifying events have stopped, no call is in progress and the
\* clock can still advance
EventsStopped == nEvents = MaxEvents /\ pcW = "select" /\ ticks < MaxTicks

\* C25: whenever an entry is pending and no bufferEvent call is in
\* progress, a timer is armed or a sweep is waiting to run or running; once
\* the events have stopped the pending set becomes empty; and every entry a
\* sweep resolves is dispatched (entries dropped as stale apart)
C25_EventuallyResolved ==
    /\ [](Keys # {} /\ pcW = "select"
            => timers # {} \/ \E s \in Sweepers : sweep[s].pc # Idle)
    /\ (Keys # {} /\ EventsStopped) ~> (Keys = {})
    /\ [][\A s \in Sweepers : Logs(s) => Outcome(s) \in
              {"deleted", "created-empty", "created", "modified"}]_vars

====
